---- MODULE Spec2Model ----
(***************************************************************************)
(* A model of the Yelp Love client library of hacsoc/golove                *)
(* (src/love/love.go): the Client, its four calls GetLove, SendLove,       *)
(* SendLoves and Autocomplete, the HTTP exchange each of them makes, and   *)
(* the JSON decoding of the responses.                                     *)
(*                                                                         *)
(* A call is modelled in two steps, split where the Go code blocks in      *)
(* http.Get / http.PostForm: the first step validates the arguments,       *)
(* builds the request and issues it; the second step receives what the     *)
(* transport gives back (an error, or a response with a status and a       *)
(* body) and runs the rest of the function to its return.                  *)
(***************************************************************************)
EXTENDS Integers, Sequences, FiniteSets, TLC

(***************************************************************************)
(* Bounds of the model.                                                    *)
(***************************************************************************)
\* the longest JSON array a response body holds
MaxElems == 2
\* the longest recipient slice given to SendLoves
MaxRecipients == 2

(***************************************************************************)
(* Program constants.                                                      *)
(***************************************************************************)
loveGetStatusCode == 200
loveCreatedStatusCode == 201
loveFailedStatusCode == 418
loveBadParamsStatusCode == 422

\* the status codes the server answers with in this model
Statuses ==
  {loveGetStatusCode, loveCreatedStatusCode, loveFailedStatusCode,
   loveBadParamsStatusCode}

(***************************************************************************)
(* Inputs: the arguments callers pass.                                     *)
(***************************************************************************)
ApiKeys == {"abcdefg"}
BaseUrls == {"https://example.com/api"}
Froms == {"", "hammy"}
Tos == {"", "darwin"}
JoinedTos == {"darwin,jeremy"}
Limits == {-1, 0, 20}
Messages == {"msg"}
Recipients == {"darwin", "jeremy"}
Terms == {"", "ha"}

RecipientLists == UNION {[1..n -> Recipients] : n \in 0..MaxRecipients}

(***************************************************************************)
(* strconv.FormatInt(limit, 10): the decimal text of an integer, most      *)
(* significant digit first, with a leading "-" when negative.              *)
(***************************************************************************)
DigitText == <<"0", "1", "2", "3", "4", "5", "6", "7", "8", "9">>

RECURSIVE FormatNat(_)
FormatNat(n) ==
  IF n < 10 THEN DigitText[n + 1]
  ELSE FormatNat(n \div 10) \o DigitText[(n % 10) + 1]

FormatInt(n) == IF n < 0 THEN "-" \o FormatNat(-n) ELSE FormatNat(n)

(***************************************************************************)
(* strings.Join(elems, sep), as the library computes it: "" for no         *)
(* element, the element itself for one, and otherwise the first element    *)
(* followed by sep and the next element for each remaining one.            *)
(***************************************************************************)
RECURSIVE JoinFrom(_, _, _, _)
JoinFrom(elems, sep, i, acc) ==
  IF i > Len(elems) THEN acc
  ELSE JoinFrom(elems, sep, i + 1, acc \o sep \o elems[i])

Join(elems, sep) ==
  IF Len(elems) = 0 THEN ""
  ELSE JoinFrom(elems, sep, 2, elems[1])

(***************************************************************************)
(* url.Values: a map from parameter name to value, and its Encode(), which *)
(* writes the pairs sorted by key.  The encoded query (or form body) is    *)
(* the sequence of <<key, value>> pairs in that order, each value as the   *)
(* server reads it back (the percent-escaping Encode applies and the       *)
(* server's parse undoes is not modelled).                                 *)
(***************************************************************************)
SortedKeys == <<"api_key", "limit", "message", "recipient", "sender", "term">>

Set(values, key, value) ==
  [k \in (DOMAIN values) \cup {key} |-> IF k = key THEN value ELSE values[k]]

EmptyValues == [k \in {} |-> ""]

RECURSIVE EncodeFrom(_, _)
EncodeFrom(values, i) ==
  IF i > Len(SortedKeys) THEN <<>>
  ELSE IF SortedKeys[i] \in DOMAIN values
       THEN <<(<<SortedKeys[i], values[SortedKeys[i]]>>)>>
              \o EncodeFrom(values, i + 1)
       ELSE EncodeFrom(values, i + 1)

Encode(values) == EncodeFrom(values, 1)

(***************************************************************************)
(* Timestamps.  The text of a timestamp is kept as its lexical fields: the *)
(* date, the separator between date and clock, the clock and the digits    *)
(* of the fractional second (<<>> when the text has none).                 *)
(***************************************************************************)
IsLeap(y) == (y % 4 = 0) /\ ((y % 100 # 0) \/ (y % 400 = 0))

DaysIn(m, y) ==
  IF m = 2 THEN (IF IsLeap(y) THEN 29 ELSE 28)
  ELSE IF m \in {4, 6, 9, 11} THEN 30 ELSE 31

RECURSIVE FracNanos(_, _)
\* the nanoseconds a fractional-second digit string stands for
FracNanos(digits, scale) ==
  IF digits = <<>> \/ scale = 0 THEN 0
  ELSE Head(digits) * scale + FracNanos(Tail(digits), scale \div 10)

\* time.Parse("2006-01-02T15:04:05", text): the layout's literal "T" must
\* match, every field must be in range, and a fractional second after the
\* seconds field is accepted although the layout names none.
ParseTime(text) ==
  IF /\ text.sep = "T"
     /\ text.date[2] \in 1..12
     /\ text.date[3] >= 1
     /\ text.date[3] <= DaysIn(text.date[2], text.date[1])
     /\ text.clock[1] \in 0..23
     /\ text.clock[2] \in 0..59
     /\ text.clock[3] \in 0..59
  THEN [ok |-> TRUE,
        time |-> [Year |-> text.date[1], Month |-> text.date[2],
                  Day |-> text.date[3], Hour |-> text.clock[1],
                  Minute |-> text.clock[2], Second |-> text.clock[3],
                  Nanosecond |-> FracNanos(text.frac, 100000000)]]
  ELSE [ok |-> FALSE]

\* "2000-01-01T01:01:01.552636"
TimestampFraction ==
  [date |-> <<2000, 1, 1>>, sep |-> "T", clock |-> <<1, 1, 1>>,
   frac |-> <<5, 5, 2, 6, 3, 6>>]
\* "2000-02-01T01:01:01"
TimestampPlain ==
  [date |-> <<2000, 2, 1>>, sep |-> "T", clock |-> <<1, 1, 1>>, frac |-> <<>>]
\* "2000-13-01T01:01:01": no such month
TimestampBadMonth ==
  [date |-> <<2000, 13, 1>>, sep |-> "T", clock |-> <<1, 1, 1>>, frac |-> <<>>]
\* "2000-01-01 01:01:01": a space where the layout has "T"
TimestampSpace ==
  [date |-> <<2000, 1, 1>>, sep |-> " ", clock |-> <<1, 1, 1>>, frac |-> <<>>]

(***************************************************************************)
(* JSON bodies.  A JSON object of strings is a record from its keys to     *)
(* their values; a body is a JSON array of such objects, a text that is    *)
(* not JSON, or a body whose read fails.                                   *)
(***************************************************************************)
LoveKeys == {"sender", "recipient", "message", "timestamp"}
UserKeys == {"label", "value"}

Without(obj, key) == [k \in (DOMAIN obj) \ {key} |-> obj[k]]

LoveObject1 ==
  [sender |-> "hammy", recipient |-> "darwin", message |-> "message",
   timestamp |-> TimestampFraction]
LoveObject2 ==
  [sender |-> "darwin", recipient |-> "hammy", message |-> "message",
   timestamp |-> TimestampPlain]

WellFormedLoves == {LoveObject1, LoveObject2}
MalformedLoves ==
  {Without(LoveObject1, k) : k \in LoveKeys}
    \cup {[LoveObject1 EXCEPT !.timestamp = TimestampBadMonth],
          [LoveObject2 EXCEPT !.timestamp = TimestampSpace]}

UserObject1 == [label |-> "label", value |-> "value"]
UserObject2 == [label |-> "Hammy (hammy)", value |-> "hammy"]

WellFormedUsers == {UserObject1, UserObject2}
MalformedUsers == {Without(UserObject1, k) : k \in UserKeys}

JsonObjects ==
  WellFormedLoves \cup MalformedLoves \cup WellFormedUsers \cup MalformedUsers

JsonArrays == UNION {[1..n -> JsonObjects] : n \in 0..MaxElems}

TextBody == [kind |-> "text", text |-> "error text"]
UnreadableBody == [kind |-> "unreadable"]

Bodies ==
  {[kind |-> "json", elems |-> a] : a \in JsonArrays}
    \cup {TextBody, UnreadableBody}

(***************************************************************************)
(* Errors.  A Go error is a value with a text; kind names the return       *)
(* statement that made it, and the other fields are what its text holds.   *)
(***************************************************************************)
NoError == [kind |-> "nil"]
\* the error of GetLove's argument check
ArgumentError ==
  [kind |-> "InvalidArgument",
   text |-> "Must specify at least one of from and to"]
\* the error http.Get / http.PostForm returns
TransportError == [kind |-> "Transport"]
\* errors.New(resp.Status): the status line, which starts with the code
StatusError(status) == [kind |-> "Status", status |-> status]
\* the error ioutil.ReadAll returns
ReadError == [kind |-> "Read"]
\* the error json.Unmarshal returns
DecodeError(text) == [kind |-> "Decode", text |-> text]
\* fmt.Errorf("Love API Error: %s", body)
ApiError(body) == [kind |-> "Api", text |-> "Love API Error: ", body |-> body]

(***************************************************************************)
(* Results.  A Go slice result is nil or a (possibly empty) sequence.      *)
(***************************************************************************)
NilResult == [nil |-> TRUE]
Slice(items) == [nil |-> FALSE, items |-> items]

(***************************************************************************)
(* Love.UnmarshalJSON and User.UnmarshalJSON on one JSON object.           *)
(***************************************************************************)
LoveUnmarshalJSON(dict) ==
  IF "sender" \notin DOMAIN dict
  THEN [err |-> DecodeError("missing key sender")]
  ELSE IF "recipient" \notin DOMAIN dict
  THEN [err |-> DecodeError("missing key recipient")]
  ELSE IF "message" \notin DOMAIN dict
  THEN [err |-> DecodeError("missing key message")]
  ELSE IF "timestamp" \notin DOMAIN dict
  THEN [err |-> DecodeError("missing key timestamp")]
  ELSE IF ~ParseTime(dict.timestamp).ok
  THEN [err |-> DecodeError("invalid timestamp encoding")]
  ELSE [err |-> NoError,
        l |-> [Sender |-> dict.sender, Recipient |-> dict.recipient,
               Message |-> dict.message,
               Timestamp |-> ParseTime(dict.timestamp).time]]

UserUnmarshalJSON(dict) ==
  IF "label" \notin DOMAIN dict
  THEN [err |-> DecodeError("missing key label")]
  ELSE IF "value" \notin DOMAIN dict
  THEN [err |-> DecodeError("missing key value")]
  ELSE [err |-> NoError,
        u |-> [Display |-> dict.label, Username |-> dict.value]]

(***************************************************************************)
(* json.Unmarshal(body, &loves) and json.Unmarshal(body, &users): the      *)
(* array is decoded element by element into the slice, and the first       *)
(* element that fails ends the decoding with its error; the slice then     *)
(* holds the elements decoded before it.                                   *)
(***************************************************************************)
RECURSIVE UnmarshalLovesFrom(_, _, _)
UnmarshalLovesFrom(elems, i, loves) ==
  IF i > Len(elems) THEN [err |-> NoError, loves |-> loves]
  ELSE IF LoveUnmarshalJSON(elems[i]).err # NoError
       THEN [err |-> LoveUnmarshalJSON(elems[i]).err, loves |-> loves]
       ELSE UnmarshalLovesFrom(elems, i + 1,
                               Append(loves, LoveUnmarshalJSON(elems[i]).l))

RECURSIVE UnmarshalLovesReversedFrom(_, _, _)
UnmarshalLovesReversedFrom(elems, i, loves) ==
  IF i > Len(elems) THEN [err |-> NoError, loves |-> loves]
  ELSE IF LoveUnmarshalJSON(elems[i]).err # NoError
       THEN [err |-> LoveUnmarshalJSON(elems[i]).err, loves |-> loves]
       ELSE UnmarshalLovesReversedFrom(
              elems, i + 1, <<LoveUnmarshalJSON(elems[i]).l>> \o loves)

\* UnmarshalLoves putting each decoded element in front of the slice
UnmarshalLovesReversed(body) ==
  IF body.kind # "json"
  THEN [err |-> DecodeError("invalid character"), loves |-> <<>>]
  ELSE UnmarshalLovesReversedFrom(body.elems, 1, <<>>)

UnmarshalLoves(body) ==
  IF body.kind # "json"
  THEN [err |-> DecodeError("invalid character"), loves |-> <<>>]
  ELSE UnmarshalLovesFrom(body.elems, 1, <<>>)

RECURSIVE UnmarshalUsersFrom(_, _, _)
UnmarshalUsersFrom(elems, i, users) ==
  IF i > Len(elems) THEN [err |-> NoError, users |-> users]
  ELSE IF UserUnmarshalJSON(elems[i]).err # NoError
       THEN [err |-> UserUnmarshalJSON(elems[i]).err, users |-> users]
       ELSE UnmarshalUsersFrom(elems, i + 1,
                               Append(users, UserUnmarshalJSON(elems[i]).u))

UnmarshalUsers(body) ==
  IF body.kind # "json"
  THEN [err |-> DecodeError("invalid character"), users |-> <<>>]
  ELSE UnmarshalUsersFrom(body.elems, 1, <<>>)

(***************************************************************************)
(* What the transport hands back to a blocked http.Get / http.PostForm:    *)
(* an error, or a response with a status code and a body.                  *)
(***************************************************************************)
NoOutcome == [kind |-> "none"]
TransportFailure == [kind |-> "error"]
Response(status, body) ==
  [kind |-> "response", status |-> status, body |-> body]

Outcomes ==
  {TransportFailure} \cup {Response(s, b) : s \in Statuses, b \in Bodies}

\* the answers to a POST: its body is a text, read only for the error
PostOutcomes ==
  {TransportFailure}
    \cup {Response(s, b) : s \in Statuses, b \in {TextBody, UnreadableBody}}

(***************************************************************************)
(* NewClient.                                                              *)
(***************************************************************************)
NewClient(ApiKey, BaseUrl) == [ApiKey |-> ApiKey, BaseUrl |-> BaseUrl]

(***************************************************************************)
(* Client.GetLove.                                                         *)
(***************************************************************************)
\* GetLoveRejects with the argument check left out
GetLoveNeverRejects(from, to) == FALSE

\* the argument check that precedes everything else
GetLoveRejects(from, to) == from = "" /\ to = ""

\* GetLoveValues sending every limit but 0
GetLoveValuesAnyLimit(c, from, to, limit) ==
  LET v0 == Set(EmptyValues, "api_key", c.ApiKey)
      v1 == IF from # "" THEN Set(v0, "sender", from) ELSE v0
      v2 == IF to # "" THEN Set(v1, "recipient", to) ELSE v1
      v3 == IF limit # 0 THEN Set(v2, "limit", FormatInt(limit)) ELSE v2
  IN  v3

\* the url.Values GetLove builds
GetLoveValues(c, from, to, limit) ==
  LET v0 == Set(EmptyValues, "api_key", c.ApiKey)
      v1 == IF from # "" THEN Set(v0, "sender", from) ELSE v0
      v2 == IF to # "" THEN Set(v1, "recipient", to) ELSE v1
      v3 == IF limit > 0 THEN Set(v2, "limit", FormatInt(limit)) ELSE v2
  IN  v3

\* http.Get(c.BaseUrl + "/love?" + values.Encode())
GetLoveRequest(c, from, to, limit) ==
  [method |-> "GET", url |-> c.BaseUrl \o "/love",
   query |-> Encode(GetLoveValues(c, from, to, limit)), form |-> <<>>]

\* GetLoveFinish taking 201 for a success as well
GetLoveFinishAcceptsCreated(outcome) ==
  IF outcome.kind = "error"
  THEN [result |-> NilResult, err |-> TransportError, closed |-> FALSE]
  ELSE IF outcome.status \notin {200, 201}
  THEN [result |-> NilResult, err |-> StatusError(outcome.status),
        closed |-> FALSE]
  ELSE IF outcome.body.kind = "unreadable"
  THEN [result |-> NilResult, err |-> ReadError, closed |-> TRUE]
  ELSE IF UnmarshalLoves(outcome.body).err # NoError
  THEN [result |-> NilResult, err |-> UnmarshalLoves(outcome.body).err,
        closed |-> TRUE]
  ELSE [result |-> Slice(UnmarshalLoves(outcome.body).loves),
        err |-> NoError, closed |-> TRUE]

\* GetLoveFinish reporting an unexpected status with a fixed text
GetLoveFinishBareError(outcome) ==
  IF outcome.kind = "error"
  THEN [result |-> NilResult, err |-> TransportError, closed |-> FALSE]
  ELSE IF outcome.status # 200
  THEN [result |-> NilResult, err |-> [kind |-> "Status"], closed |-> FALSE]
  ELSE IF outcome.body.kind = "unreadable"
  THEN [result |-> NilResult, err |-> ReadError, closed |-> TRUE]
  ELSE IF UnmarshalLoves(outcome.body).err # NoError
  THEN [result |-> NilResult, err |-> UnmarshalLoves(outcome.body).err,
        closed |-> TRUE]
  ELSE [result |-> Slice(UnmarshalLoves(outcome.body).loves),
        err |-> NoError, closed |-> TRUE]

\* GetLoveFinish returning the slice as json.Unmarshal left it
GetLoveFinishPartial(outcome) ==
  IF outcome.kind = "error"
  THEN [result |-> NilResult, err |-> TransportError, closed |-> FALSE]
  ELSE IF outcome.status # 200
  THEN [result |-> NilResult, err |-> StatusError(outcome.status),
        closed |-> FALSE]
  ELSE IF outcome.body.kind = "unreadable"
  THEN [result |-> NilResult, err |-> ReadError, closed |-> TRUE]
  ELSE [result |-> Slice(UnmarshalLoves(outcome.body).loves),
        err |-> UnmarshalLoves(outcome.body).err, closed |-> TRUE]

\* the rest of GetLove once http.Get has returned: what the call returns,
\* and whether it has closed the response body by then
GetLoveFinish(outcome) ==
  IF outcome.kind = "error"
  THEN [result |-> NilResult, err |-> TransportError, closed |-> FALSE]
  ELSE IF outcome.status # 200
  THEN [result |-> NilResult, err |-> StatusError(outcome.status),
        closed |-> FALSE]
  ELSE IF outcome.body.kind = "unreadable"
  THEN [result |-> NilResult, err |-> ReadError, closed |-> TRUE]
  ELSE IF UnmarshalLoves(outcome.body).err # NoError
  THEN [result |-> NilResult, err |-> UnmarshalLoves(outcome.body).err,
        closed |-> TRUE]
  ELSE [result |-> Slice(UnmarshalLoves(outcome.body).loves),
        err |-> NoError, closed |-> TRUE]

(***************************************************************************)
(* Client.SendLove and Client.SendLoves.                                   *)
(***************************************************************************)
\* the url.Values SendLove posts
SendLoveValues(c, from, to, message) ==
  LET v0 == Set(EmptyValues, "api_key", c.ApiKey)
      v1 == Set(v0, "sender", from)
      v2 == Set(v1, "recipient", to)
      v3 == Set(v2, "message", message)
  IN  v3

\* http.PostForm(c.BaseUrl + "/love", values)
SendLoveRequest(c, from, to, message) ==
  [method |-> "POST", url |-> c.BaseUrl \o "/love", query |-> <<>>,
   form |-> Encode(SendLoveValues(c, from, to, message))]

\* SendLoveFinish expecting 200 instead of 201
SendLoveFinishExpects200(outcome) ==
  IF outcome.kind = "error"
  THEN [result |-> NilResult, err |-> TransportError, closed |-> FALSE]
  ELSE IF outcome.status # loveGetStatusCode
  THEN IF outcome.body.kind = "unreadable"
       THEN [result |-> NilResult, err |-> ReadError, closed |-> TRUE]
       ELSE [result |-> NilResult, err |-> ApiError(outcome.body),
             closed |-> TRUE]
  ELSE [result |-> NilResult, err |-> NoError, closed |-> FALSE]

\* SendLoveFinish falling back to the status line when the body cannot be
\* read
SendLoveFinishFallsBack(outcome) ==
  IF outcome.kind = "error"
  THEN [result |-> NilResult, err |-> TransportError, closed |-> FALSE]
  ELSE IF outcome.status # loveCreatedStatusCode
  THEN IF outcome.body.kind = "unreadable"
       THEN [result |-> NilResult, err |-> StatusError(outcome.status),
             closed |-> TRUE]
       ELSE [result |-> NilResult, err |-> ApiError(outcome.body),
             closed |-> TRUE]
  ELSE [result |-> NilResult, err |-> NoError, closed |-> FALSE]

\* the rest of SendLove once http.PostForm has returned
SendLoveFinish(outcome) ==
  IF outcome.kind = "error"
  THEN [result |-> NilResult, err |-> TransportError, closed |-> FALSE]
  ELSE IF outcome.status # loveCreatedStatusCode
  THEN IF outcome.body.kind = "unreadable"
       THEN [result |-> NilResult, err |-> ReadError, closed |-> TRUE]
       ELSE [result |-> NilResult, err |-> ApiError(outcome.body),
             closed |-> TRUE]
  ELSE [result |-> NilResult, err |-> NoError, closed |-> FALSE]

\* SendLovesRecipient joining with a comma and a space
SendLovesRecipientSpaced(to) == Join(to, ", ")

\* SendLoves hands SendLove the recipients joined by commas
SendLovesRecipient(to) == Join(to, ",")

(***************************************************************************)
(* Client.Autocomplete.                                                    *)
(***************************************************************************)
\* AutocompleteValues leaving an empty term out, as GetLove does with its
\* arguments
AutocompleteValuesSkipsEmpty(c, term) ==
  LET v0 == Set(EmptyValues, "api_key", c.ApiKey)
      v1 == IF term # "" THEN Set(v0, "term", term) ELSE v0
  IN  v1

\* the url.Values Autocomplete builds
AutocompleteValues(c, term) ==
  LET v0 == Set(EmptyValues, "api_key", c.ApiKey)
      v1 == Set(v0, "term", term)
  IN  v1

\* http.Get(c.BaseUrl + "/autocomplete?" + values.Encode())
AutocompleteRequest(c, term) ==
  [method |-> "GET", url |-> c.BaseUrl \o "/autocomplete",
   query |-> Encode(AutocompleteValues(c, term)), form |-> <<>>]

\* the rest of Autocomplete once http.Get has returned
AutocompleteFinish(outcome) ==
  IF outcome.kind = "error"
  THEN [result |-> NilResult, err |-> TransportError, closed |-> FALSE]
  ELSE IF outcome.status # loveGetStatusCode
  THEN [result |-> NilResult, err |-> StatusError(outcome.status),
        closed |-> FALSE]
  ELSE IF outcome.body.kind = "unreadable"
  THEN [result |-> NilResult, err |-> ReadError, closed |-> TRUE]
  ELSE IF UnmarshalUsers(outcome.body).err # NoError
  THEN [result |-> NilResult, err |-> UnmarshalUsers(outcome.body).err,
        closed |-> TRUE]
  ELSE [result |-> Slice(UnmarshalUsers(outcome.body).users),
        err |-> NoError, closed |-> TRUE]

(***************************************************************************)
(* State.  The client is shared; everything else is kept per caller (a     *)
(* goroutine calling into the client).                                     *)
(*   client    the Client NewClient made                                   *)
(*   pc        where each caller is: "idle" (no call), "waiting" (blocked  *)
(*             in http.Get / http.PostForm), "done" (the call returned)    *)
(*   call      the caller's call in progress and its arguments             *)
(*   requests  the HTTP requests that call has issued, in order            *)
(*   resp      what the transport handed back to that call                 *)
(*   ret       what the call returned                                      *)
(***************************************************************************)
VARIABLES client, pc, call, requests, resp, ret

vars == <<client, pc, call, requests, resp, ret>>

Callers == {"c1", "c2"}

NoCall == [op |-> "none"]
NoReturn == [result |-> NilResult, err |-> NoError, closed |-> FALSE]

Init ==
  /\ client \in {NewClient(k, u) : k \in ApiKeys, u \in BaseUrls}
  /\ pc = [p \in Callers |-> "idle"]
  /\ call = [p \in Callers |-> NoCall]
  /\ requests = [p \in Callers |-> <<>>]
  /\ resp = [p \in Callers |-> NoOutcome]
  /\ ret = [p \in Callers |-> NoReturn]

\* GetLove up to its return on bad arguments, or to http.Get
GetLoveCall(p, from, to, limit) ==
  /\ pc[p] = "idle"
  /\ call' = [call EXCEPT ![p] = [op |-> "GetLove", from |-> from, to |-> to,
                                  limit |-> limit]]
  /\ IF GetLoveRejects(from, to)
     THEN /\ pc' = [pc EXCEPT ![p] = "done"]
          /\ ret' = [ret EXCEPT ![p] = [result |-> NilResult,
                                        err |-> ArgumentError,
                                        closed |-> FALSE]]
          /\ UNCHANGED requests
     ELSE /\ pc' = [pc EXCEPT ![p] = "waiting"]
          /\ requests' = [requests EXCEPT ![p] =
                            Append(@, GetLoveRequest(client, from, to, limit))]
          /\ UNCHANGED ret
  /\ UNCHANGED <<client, resp>>

\* GetLoveReturn trying http.Get a second time when the first attempt fails
GetLoveReturnRetries(p) ==
  /\ pc[p] = "waiting"
  /\ call[p].op = "GetLove"
  /\ \E outcome \in Outcomes :
       IF outcome.kind = "error" /\ Len(requests[p]) < 2
       THEN /\ requests' = [requests EXCEPT ![p] = Append(@, @[1])]
            /\ UNCHANGED <<pc, resp, ret>>
       ELSE /\ resp' = [resp EXCEPT ![p] = outcome]
            /\ ret' = [ret EXCEPT ![p] = GetLoveFinish(outcome)]
            /\ pc' = [pc EXCEPT ![p] = "done"]
            /\ UNCHANGED requests
  /\ UNCHANGED <<client, call>>

\* GetLove from the return of http.Get, with one of the given outcomes of
\* the exchange, to its own return
GetLoveReturnAmong(p, outcomes) ==
  /\ pc[p] = "waiting"
  /\ call[p].op = "GetLove"
  /\ \E outcome \in outcomes :
       /\ resp' = [resp EXCEPT ![p] = outcome]
       /\ ret' = [ret EXCEPT ![p] = GetLoveFinish(outcome)]
  /\ pc' = [pc EXCEPT ![p] = "done"]
  /\ UNCHANGED <<client, call, requests>>

\* GetLove from the return of http.Get, with any outcome of the exchange,
\* to its own return
GetLoveReturn(p) == GetLoveReturnAmong(p, Outcomes)

\* SendLoveCall keeping the url it builds in the client
SendLoveCallKeepsUrl(p, from, to, message) ==
  /\ pc[p] = "idle"
  /\ client' = [client EXCEPT !.BaseUrl = @ \o "/love"]
  /\ call' = [call EXCEPT ![p] = [op |-> "SendLove", from |-> from,
                                  to |-> to, message |-> message]]
  /\ requests' = [requests EXCEPT ![p] =
                    Append(@, [method |-> "POST", url |-> client'.BaseUrl,
                               query |-> <<>>,
                               form |-> Encode(SendLoveValues(client, from, to,
                                                              message))])]
  /\ pc' = [pc EXCEPT ![p] = "waiting"]
  /\ UNCHANGED <<resp, ret>>

\* SendLove up to http.PostForm
SendLoveCall(p, from, to, message) ==
  /\ pc[p] = "idle"
  /\ call' = [call EXCEPT ![p] = [op |-> "SendLove", from |-> from,
                                  to |-> to, message |-> message]]
  /\ requests' = [requests EXCEPT ![p] =
                    Append(@, SendLoveRequest(client, from, to, message))]
  /\ pc' = [pc EXCEPT ![p] = "waiting"]
  /\ UNCHANGED <<client, resp, ret>>

\* SendLoves up to the http.PostForm of the SendLove it calls
SendLovesCall(p, from, to, message) ==
  /\ pc[p] = "idle"
  /\ call' = [call EXCEPT ![p] = [op |-> "SendLoves", from |-> from,
                                  recipients |-> to, message |-> message]]
  /\ requests' = [requests EXCEPT ![p] =
                    Append(@, SendLoveRequest(client, from,
                                              SendLovesRecipient(to), message))]
  /\ pc' = [pc EXCEPT ![p] = "waiting"]
  /\ UNCHANGED <<client, resp, ret>>

\* SendLove (called directly or by SendLoves) from the return of
\* http.PostForm, with one of the given outcomes of the exchange, to its own
\* return
SendLoveReturnAmong(p, outcomes) ==
  /\ pc[p] = "waiting"
  /\ call[p].op \in {"SendLove", "SendLoves"}
  /\ \E outcome \in outcomes :
       /\ resp' = [resp EXCEPT ![p] = outcome]
       /\ ret' = [ret EXCEPT ![p] = SendLoveFinish(outcome)]
  /\ pc' = [pc EXCEPT ![p] = "done"]
  /\ UNCHANGED <<client, call, requests>>

\* SendLove (called directly or by SendLoves) from the return of
\* http.PostForm, with any outcome of the exchange, to its own return
SendLoveReturn(p) == SendLoveReturnAmong(p, PostOutcomes)

\* Autocomplete up to http.Get
AutocompleteCall(p, term) ==
  /\ pc[p] = "idle"
  /\ call' = [call EXCEPT ![p] = [op |-> "Autocomplete", term |-> term]]
  /\ requests' = [requests EXCEPT ![p] =
                    Append(@, AutocompleteRequest(client, term))]
  /\ pc' = [pc EXCEPT ![p] = "waiting"]
  /\ UNCHANGED <<client, resp, ret>>

\* Autocomplete from the return of http.Get, with one of the given outcomes
\* of the exchange, to its own return
AutocompleteReturnAmong(p, outcomes) ==
  /\ pc[p] = "waiting"
  /\ call[p].op = "Autocomplete"
  /\ \E outcome \in outcomes :
       /\ resp' = [resp EXCEPT ![p] = outcome]
       /\ ret' = [ret EXCEPT ![p] = AutocompleteFinish(outcome)]
  /\ pc' = [pc EXCEPT ![p] = "done"]
  /\ UNCHANGED <<client, call, requests>>

\* Autocomplete from the return of http.Get, with any outcome of the
\* exchange, to its own return
AutocompleteReturn(p) == AutocompleteReturnAmong(p, Outcomes)

\* the caller takes the returned values and is free to call again
Finish(p) ==
  /\ pc[p] = "done"
  /\ pc' = [pc EXCEPT ![p] = "idle"]
  /\ call' = [call EXCEPT ![p] = NoCall]
  /\ requests' = [requests EXCEPT ![p] = <<>>]
  /\ resp' = [resp EXCEPT ![p] = NoOutcome]
  /\ ret' = [ret EXCEPT ![p] = NoReturn]
  /\ UNCHANGED client

(***************************************************************************)
(* Spec: one caller uses the client, call after call, with every argument  *)
(* and every outcome of the exchange.                                      *)
(***************************************************************************)
Sequential == {"c1"}

Next ==
  \E p \in Sequential :
    \/ \E from \in Froms, to \in Tos, limit \in Limits :
         GetLoveCall(p, from, to, limit)
    \/ GetLoveReturn(p)
    \/ \E from \in Froms, to \in Tos \cup JoinedTos, message \in Messages :
         SendLoveCall(p, from, to, message)
    \/ \E from \in Froms, to \in RecipientLists, message \in Messages :
         SendLovesCall(p, from, to, message)
    \/ SendLoveReturn(p)
    \/ \E term \in Terms : AutocompleteCall(p, term)
    \/ AutocompleteReturn(p)
    \/ Finish(p)

Spec == Init /\ [][Next]_vars

(***************************************************************************)
(* SpecConcurrent: two callers use the one client at the same time, their  *)
(* calls interleaved in every order, with a few arguments and a few        *)
(* outcomes of each exchange.                                              *)
(***************************************************************************)
FewBodies == {[kind |-> "json", elems |-> <<>>], TextBody}

FewOutcomes ==
  {TransportFailure}
    \cup {Response(s, b) : s \in {loveGetStatusCode, loveFailedStatusCode},
                           b \in FewBodies}

FewPostOutcomes ==
  {TransportFailure}
    \cup {Response(s, TextBody) :
            s \in {loveCreatedStatusCode, loveBadParamsStatusCode}}

NextConcurrent ==
  \E p \in Callers :
    \/ \E from \in Froms, to \in Tos : GetLoveCall(p, from, to, 20)
    \/ GetLoveReturnAmong(p, FewOutcomes)
    \/ \E to \in Tos \cup JoinedTos : SendLoveCall(p, "hammy", to, "msg")
    \/ SendLovesCall(p, "hammy", <<"darwin", "jeremy">>, "msg")
    \/ SendLoveReturnAmong(p, FewPostOutcomes)
    \/ \E term \in Terms : AutocompleteCall(p, term)
    \/ AutocompleteReturnAmong(p, FewOutcomes)
    \/ Finish(p)

SpecConcurrent == Init /\ [][NextConcurrent]_vars

(***************************************************************************)
(* Helpers of the properties: reading a request back, as the server does.  *)
(***************************************************************************)
\* the longest decimal text the properties read back
MaxDigits == 2

\* the parameter names of an encoded query or form
ParamNames(pairs) == {pairs[i][1] : i \in DOMAIN pairs}

\* the value of parameter name in an encoded query or form
ParamValue(pairs, name) ==
  pairs[CHOOSE i \in DOMAIN pairs : pairs[i][1] = name][2]

\* every parameter occurs once
NoRepeats(pairs) == Cardinality(ParamNames(pairs)) = Len(pairs)

RECURSIVE NumberOf(_)
\* the number a sequence of decimal digits writes
NumberOf(ds) ==
  IF ds = <<>> THEN 0
  ELSE 10 * NumberOf(SubSeq(ds, 1, Len(ds) - 1)) + ds[Len(ds)]

RECURSIVE TextOf(_)
\* the text of a sequence of decimal digits
TextOf(ds) == IF ds = <<>> THEN "" ELSE DigitText[Head(ds) + 1] \o TextOf(Tail(ds))

\* <<n, text>> for every canonical decimal text (no leading zero) of at
\* most MaxDigits digits
DecimalTexts ==
  {<<NumberOf(ds), TextOf(ds)>> :
     ds \in {d \in UNION {[1..k -> 0..9] : k \in 1..MaxDigits} :
               Len(d) = 1 \/ d[1] # 0}}

IsDecimalOf(text, n) == <<n, text>> \in DecimalTexts

RECURSIVE CommaSeparated(_)
\* the elements of a sequence of strings, a single comma between neighbours
CommaSeparated(R) ==
  IF R = <<>> THEN ""
  ELSE IF Len(R) = 1 THEN R[1]
  ELSE R[1] \o "," \o CommaSeparated(Tail(R))

Returned(p, ops) == pc[p] = "done" /\ call[p].op \in ops
Answered(p) == resp[p].kind = "response"

(***************************************************************************)
(* C1.  GetLove called with from = "" and to = "" returns, for every       *)
(* limit, a nil result and the argument error, and issues no HTTP request: *)
(* such a call is never found waiting for a response and its request log   *)
(* stays empty.                                                            *)
(***************************************************************************)
C1_EmptyArgumentsRejected ==
  \A p \in Callers :
    (call[p].op = "GetLove" /\ call[p].from = "" /\ call[p].to = "") =>
      /\ pc[p] = "done"
      /\ requests[p] = <<>>
      /\ resp[p] = NoOutcome
      /\ ret[p].result = NilResult
      /\ ret[p].err = ArgumentError

C1_Witness ==
  \E p \in Callers :
    /\ Returned(p, {"GetLove"})
    /\ call[p].from = "" /\ call[p].to = "" /\ call[p].limit > 0
    /\ ret[p].err.kind = "InvalidArgument"

(***************************************************************************)
(* C2.  A GetLove call with from or to non-empty issues exactly one        *)
(* request, a GET to BaseUrl/love, whose query parameters are exactly:     *)
(* api_key (the client's key), sender iff from is non-empty, recipient iff *)
(* to is non-empty, and limit iff limit > 0, in decimal.                   *)
(***************************************************************************)
C2_GetLoveQuery ==
  \A p \in Callers :
    (call[p].op = "GetLove" /\ ~(call[p].from = "" /\ call[p].to = "")) =>
      /\ Len(requests[p]) = 1
      /\ LET r == requests[p][1]
             q == r.query
         IN  /\ r.method = "GET"
             /\ r.url = client.BaseUrl \o "/love"
             /\ r.form = <<>>
             /\ NoRepeats(q)
             /\ ParamNames(q) =
                  {"api_key"}
                    \cup (IF call[p].from # "" THEN {"sender"} ELSE {})
                    \cup (IF call[p].to # "" THEN {"recipient"} ELSE {})
                    \cup (IF call[p].limit > 0 THEN {"limit"} ELSE {})
             /\ ParamValue(q, "api_key") = client.ApiKey
             /\ call[p].from # "" => ParamValue(q, "sender") = call[p].from
             /\ call[p].to # "" => ParamValue(q, "recipient") = call[p].to
             /\ call[p].limit > 0 =>
                  IsDecimalOf(ParamValue(q, "limit"), call[p].limit)

C2_Witness ==
  \E p \in Callers :
    /\ Returned(p, {"GetLove"})
    /\ call[p].from = "" /\ call[p].to # "" /\ call[p].limit > 9
    /\ Len(requests[p]) = 1
    /\ ParamNames(requests[p][1].query) = {"api_key", "recipient", "limit"}

(***************************************************************************)
(* C3.  When the response status is not 200, GetLove and Autocomplete      *)
(* return a nil result and a non-nil error, whatever the body holds.       *)
(***************************************************************************)
C3_Non200IsAnError ==
  \A p \in Callers :
    (/\ Returned(p, {"GetLove", "Autocomplete"})
     /\ Answered(p)
     /\ resp[p].status # 200) =>
      /\ ret[p].result = NilResult
      /\ ret[p].err # NoError

C3_Witness ==
  \E p \in Callers :
    /\ Returned(p, {"GetLove"})
    /\ Answered(p)
    /\ resp[p].status = loveCreatedStatusCode
    /\ resp[p].body = [kind |-> "json", elems |-> <<LoveObject1, LoveObject2>>]
    /\ ret[p].err.kind = "Status"

(***************************************************************************)
(* C4.  When the HTTP exchange of SendLove completes, the call returns no  *)
(* error if and only if the response status is 201.                        *)
(***************************************************************************)
C4_SendLoveOkIff201 ==
  \A p \in Callers :
    (Returned(p, {"SendLove", "SendLoves"}) /\ Answered(p)) =>
      (ret[p].err = NoError <=> resp[p].status = 201)

C4_Witness ==
  \E p \in Callers :
    /\ Returned(p, {"SendLove"})
    /\ Answered(p)
    /\ resp[p].status = loveGetStatusCode
    /\ ret[p].err # NoError

(***************************************************************************)
(* C5.  SendLoves(from, R, message) issues the request of                  *)
(* SendLove(from, join(R, ","), message): one POST to BaseUrl/love whose   *)
(* form fields are exactly api_key, sender, recipient and message, with    *)
(* recipient the elements of R in order, one comma between neighbours (""  *)
(* for the empty R, which is sent all the same); and it returns what       *)
(* SendLove returns for the response.                                      *)
(***************************************************************************)
C5_SendLovesIsSendLoveOfJoin ==
  \A p \in Callers :
    call[p].op = "SendLoves" =>
      /\ pc[p] \in {"waiting", "done"}
      /\ Len(requests[p]) = 1
      /\ LET r == requests[p][1]
             f == r.form
         IN  /\ r.method = "POST"
             /\ r.url = client.BaseUrl \o "/love"
             /\ r.query = <<>>
             /\ NoRepeats(f)
             /\ ParamNames(f) = {"api_key", "sender", "recipient", "message"}
             /\ ParamValue(f, "api_key") = client.ApiKey
             /\ ParamValue(f, "sender") = call[p].from
             /\ ParamValue(f, "message") = call[p].message
             /\ ParamValue(f, "recipient") = CommaSeparated(call[p].recipients)
             /\ r = SendLoveRequest(client, call[p].from,
                                    CommaSeparated(call[p].recipients),
                                    call[p].message)
      /\ pc[p] = "done" => ret[p] = SendLoveFinish(resp[p])

C5_Witness ==
  \E p \in Callers :
    /\ Returned(p, {"SendLoves"})
    /\ call[p].recipients = <<>>
    /\ Len(requests[p]) = 1
    /\ ParamValue(requests[p][1].form, "recipient") = ""

\* a JSON object that decodes as a Love: it has the four keys and its
\* timestamp parses
WellFormedLove(obj) ==
  /\ LoveKeys \subseteq DOMAIN obj
  /\ ParseTime(obj.timestamp).ok

\* a JSON object that decodes as a User
WellFormedUser(obj) == UserKeys \subseteq DOMAIN obj

AnsweredJsonArray(p) ==
  /\ Answered(p)
  /\ resp[p].status = 200
  /\ resp[p].body.kind = "json"

(***************************************************************************)
(* C6.  If a 200 response to GetLove holds a JSON array with an element,   *)
(* at any position, that lacks one of the keys sender, recipient, message, *)
(* timestamp or whose timestamp does not parse, the call returns a decode  *)
(* error and a nil result: no part of the array is returned.               *)
(***************************************************************************)
C6_MalformedElementFailsTheCall ==
  \A p \in Callers :
    (/\ Returned(p, {"GetLove"})
     /\ AnsweredJsonArray(p)
     /\ \E i \in DOMAIN resp[p].body.elems :
          ~WellFormedLove(resp[p].body.elems[i])) =>
      /\ ret[p].err.kind = "Decode"
      /\ ret[p].result = NilResult

C6_Witness ==
  \E p \in Callers :
    /\ Returned(p, {"GetLove"})
    /\ AnsweredJsonArray(p)
    /\ resp[p].body.elems =
         <<LoveObject1, [LoveObject2 EXCEPT !.timestamp = TimestampSpace]>>
    /\ ret[p].err.kind = "Decode"

(***************************************************************************)
(* C7.  On a 200 response whose body is a JSON array of n >= 0 well-formed *)
(* message objects, GetLove returns no error and a slice of exactly n      *)
(* Loves, the i-th with the sender, recipient and message of the i-th      *)
(* element of the array; the empty array gives an empty slice.             *)
(***************************************************************************)
C7_WellFormedArrayInOrder ==
  \A p \in Callers :
    (/\ Returned(p, {"GetLove"})
     /\ AnsweredJsonArray(p)
     /\ \A i \in DOMAIN resp[p].body.elems :
          WellFormedLove(resp[p].body.elems[i])) =>
      /\ ret[p].err = NoError
      /\ ~ret[p].result.nil
      /\ Len(ret[p].result.items) = Len(resp[p].body.elems)
      /\ \A i \in DOMAIN resp[p].body.elems :
           /\ ret[p].result.items[i].Sender = resp[p].body.elems[i].sender
           /\ ret[p].result.items[i].Recipient =
                resp[p].body.elems[i].recipient
           /\ ret[p].result.items[i].Message = resp[p].body.elems[i].message

C7_Witness ==
  \E p \in Callers :
    /\ Returned(p, {"GetLove"})
    /\ AnsweredJsonArray(p)
    /\ resp[p].body.elems = <<LoveObject2, LoveObject1>>
    /\ ret[p].err = NoError
    /\ Len(ret[p].result.items) = 2

(***************************************************************************)
(* C8.  For every term, the empty one included, Autocomplete issues        *)
(* exactly one request, a GET to BaseUrl/autocomplete whose query          *)
(* parameters are exactly api_key and term (no call is turned down for its *)
(* argument), and on a 200 response with a JSON array of {label, value}    *)
(* objects it returns one User per element, in order, with Display the     *)
(* label and Username the value.                                           *)
(***************************************************************************)
C8_Autocomplete ==
  \A p \in Callers :
    call[p].op = "Autocomplete" =>
      /\ pc[p] \in {"waiting", "done"}
      /\ Len(requests[p]) = 1
      /\ LET r == requests[p][1]
         IN  /\ r.method = "GET"
             /\ r.url = client.BaseUrl \o "/autocomplete"
             /\ r.form = <<>>
             /\ NoRepeats(r.query)
             /\ ParamNames(r.query) = {"api_key", "term"}
             /\ ParamValue(r.query, "api_key") = client.ApiKey
             /\ ParamValue(r.query, "term") = call[p].term
      /\ (/\ pc[p] = "done"
          /\ AnsweredJsonArray(p)
          /\ \A i \in DOMAIN resp[p].body.elems :
               WellFormedUser(resp[p].body.elems[i])) =>
           /\ ret[p].err = NoError
           /\ ~ret[p].result.nil
           /\ Len(ret[p].result.items) = Len(resp[p].body.elems)
           /\ \A i \in DOMAIN resp[p].body.elems :
                /\ ret[p].result.items[i].Display = resp[p].body.elems[i].label
                /\ ret[p].result.items[i].Username =
                     resp[p].body.elems[i].value

C8_Witness ==
  \E p \in Callers :
    /\ Returned(p, {"Autocomplete"})
    /\ call[p].term = ""
    /\ AnsweredJsonArray(p)
    /\ resp[p].body.elems = <<UserObject2, UserObject1>>
    /\ Len(ret[p].result.items) = 2

(***************************************************************************)
(* C9.  A call issues at most one HTTP request in its whole execution:     *)
(* none when GetLove turns its arguments down, exactly one otherwise, and  *)
(* none is added after a transport failure, an unexpected status or a      *)
(* decode failure.                                                         *)
(***************************************************************************)
C9_SingleAttempt ==
  \A p \in Callers :
    /\ Len(requests[p]) <= 1
    /\ pc[p] = "waiting" => Len(requests[p]) = 1
    /\ pc[p] = "done" =>
         Len(requests[p]) = (IF ret[p].err = ArgumentError THEN 0 ELSE 1)

C9_Witness ==
  \E p \in Callers :
    /\ pc[p] = "done"
    /\ ret[p].err.kind \in {"Transport", "Status", "Decode"}
    /\ Len(requests[p]) = 1

(***************************************************************************)
(* C10.  As claimed: when SendLove receives a non-201 response whose body  *)
(* cannot be read, it still returns the error of the unexpected status,    *)
(* not the failure of the read.                                            *)
(***************************************************************************)
C10_AsClaimed ==
  \A p \in Callers :
    (/\ Returned(p, {"SendLove", "SendLoves"})
     /\ Answered(p)
     /\ resp[p].status # 201
     /\ resp[p].body.kind = "unreadable") =>
      /\ ret[p].err.kind \in {"Api", "Status"}
      /\ ret[p].err.kind # "Read"

(***************************************************************************)
(* C10, amended.  When SendLove receives a non-201 response whose body     *)
(* cannot be read, the call returns the failure of the read as its error   *)
(* (a non-nil error), in place of an error for the unexpected status.      *)
(***************************************************************************)
C10_ReadFailureIsReturned ==
  \A p \in Callers :
    (/\ Returned(p, {"SendLove", "SendLoves"})
     /\ Answered(p)
     /\ resp[p].status # 201
     /\ resp[p].body.kind = "unreadable") =>
      /\ ret[p].err = ReadError
      /\ ret[p].err # NoError

C10_Witness ==
  \E p \in Callers :
    /\ Returned(p, {"SendLove"})
    /\ Answered(p)
    /\ resp[p].status = loveFailedStatusCode
    /\ resp[p].body.kind = "unreadable"
    /\ ret[p].err.kind = "Read"

\* the error holds the status code of the response
CarriesStatus(err, status) == "status" \in DOMAIN err /\ err.status = status

\* the call returned an error for the status of its response: not 200 for
\* GetLove and Autocomplete, not 201 for SendLove
FailedOnStatus(p) ==
  /\ pc[p] = "done"
  /\ Answered(p)
  /\ \/ call[p].op \in {"GetLove", "Autocomplete"} /\ resp[p].status # 200
     \/ call[p].op \in {"SendLove", "SendLoves"} /\ resp[p].status # 201
  /\ ret[p].err.kind \in {"Status", "Api"}

(***************************************************************************)
(* C11.  As claimed: every error returned because a call completed with an *)
(* unexpected status code carries the status code of the response, for     *)
(* SendLove also when the error holds the text of the response body.       *)
(***************************************************************************)
C11_AsClaimed ==
  \A p \in Callers :
    FailedOnStatus(p) => CarriesStatus(ret[p].err, resp[p].status)

(***************************************************************************)
(* C11, amended.  The error GetLove and Autocomplete return for a status   *)
(* other than 200 carries the status of the response; the error SendLove   *)
(* returns for a status other than 201, when it has read the body, carries *)
(* the text of the body and not the status code.                           *)
(***************************************************************************)
C11_StatusOrBodyText ==
  \A p \in Callers :
    FailedOnStatus(p) =>
      IF call[p].op \in {"GetLove", "Autocomplete"}
      THEN /\ ret[p].err.kind = "Status"
           /\ CarriesStatus(ret[p].err, resp[p].status)
      ELSE /\ ret[p].err.kind = "Api"
           /\ ret[p].err.body = resp[p].body
           /\ "status" \notin DOMAIN ret[p].err

C11_Witness ==
  \E p \in Callers :
    /\ FailedOnStatus(p)
    /\ call[p].op = "SendLove"
    /\ resp[p].status = loveBadParamsStatusCode
    /\ resp[p].body = TextBody
    /\ ret[p].err.kind = "Api"

\* request r is the one call c builds from its own arguments and client cl
BuiltFrom(r, c, cl) ==
  LET params == IF r.method = "GET" THEN r.query ELSE r.form
  IN  /\ NoRepeats(params)
      /\ ParamValue(params, "api_key") = cl.ApiKey
      /\ CASE c.op = "GetLove" ->
                /\ r.method = "GET"
                /\ r.url = cl.BaseUrl \o "/love"
                /\ ParamNames(params) =
                     {"api_key"}
                       \cup (IF c.from # "" THEN {"sender"} ELSE {})
                       \cup (IF c.to # "" THEN {"recipient"} ELSE {})
                       \cup (IF c.limit > 0 THEN {"limit"} ELSE {})
                /\ c.from # "" => ParamValue(params, "sender") = c.from
                /\ c.to # "" => ParamValue(params, "recipient") = c.to
                /\ c.limit > 0 =>
                     IsDecimalOf(ParamValue(params, "limit"), c.limit)
           [] c.op = "SendLove" ->
                /\ r.method = "POST"
                /\ r.url = cl.BaseUrl \o "/love"
                /\ ParamNames(params) =
                     {"api_key", "sender", "recipient", "message"}
                /\ ParamValue(params, "sender") = c.from
                /\ ParamValue(params, "recipient") = c.to
                /\ ParamValue(params, "message") = c.message
           [] c.op = "SendLoves" ->
                /\ r.method = "POST"
                /\ r.url = cl.BaseUrl \o "/love"
                /\ ParamNames(params) =
                     {"api_key", "sender", "recipient", "message"}
                /\ ParamValue(params, "sender") = c.from
                /\ ParamValue(params, "recipient") =
                     CommaSeparated(c.recipients)
                /\ ParamValue(params, "message") = c.message
           [] c.op = "Autocomplete" ->
                /\ r.method = "GET"
                /\ r.url = cl.BaseUrl \o "/autocomplete"
                /\ ParamNames(params) = {"api_key", "term"}
                /\ ParamValue(params, "term") = c.term
           [] OTHER -> FALSE

(***************************************************************************)
(* C12.  Through every sequence and interleaving of GetLove, SendLove,     *)
(* SendLoves and Autocomplete calls of two callers on one Client, failed   *)
(* or not, the Client keeps the ApiKey and BaseUrl NewClient was given:    *)
(* no step changes the client, and the request a step issues is the one    *)
(* built from that call's own arguments and the client as constructed,     *)
(* whatever the other caller is doing.                                     *)
(***************************************************************************)
C12_ClientNeverChanges ==
  /\ client \in {NewClient(k, u) : k \in ApiKeys, u \in BaseUrls}
  /\ [][/\ client' = client
        /\ \A p \in Callers :
             requests'[p] \notin {requests[p], <<>>} =>
               /\ Len(requests'[p]) = 1
               /\ BuiltFrom(requests'[p][1], call'[p], client)]_vars

C12_Witness ==
  /\ pc["c1"] = "done"
  /\ call["c1"].op = "SendLove"
  /\ ret["c1"].err.kind = "Api"
  /\ pc["c2"] = "waiting"
  /\ call["c2"].op = "GetLove"
  /\ Len(requests["c2"]) = 1
  /\ client \in {NewClient(k, u) : k \in ApiKeys, u \in BaseUrls}

(***************************************************************************)
(* C13.  Whenever a call has obtained an HTTP response, it has closed the  *)
(* body of that response by the time it returns, on every return path.     *)
(***************************************************************************)
C13_BodyClosedOnReturn ==
  \A p \in Callers :
    (pc[p] = "done" /\ Answered(p)) => ret[p].closed

====
